---- MODULE Spec2Model ----
(***************************************************************************)
(* Lariat<T, Size>: a doubly linked list of fixed-capacity arrays.         *)
(* The heap is a function from node addresses to LNode records; every      *)
(* member function of the class is an operator from a container state to   *)
(* a container state, translated statement by statement. An exception is  *)
(* the field err of the state returned. The variables op and pre record    *)
(* the last call and the container it started from, so that what a call    *)
(* did is a predicate of one state.                                        *)
(***************************************************************************)
EXTENDS Integers, Sequences, FiniteSets, TLC

\* ---------------------------------------------------------------- bounds
MaxCap  == 3   \* template parameter Size ranges over 1..MaxCap
MaxSize == 4   \* inserting operations are enabled while size_ < MaxSize
MaxVal  == 2   \* element values are 1..MaxVal
MaxSplitCap == 6   \* split() on its own: Size ranges over 1..MaxSplitCap
MaxCopySize == 3   \* containers that are copied or assigned hold at most this

Capacities == 1..MaxCap
Values     == 1..MaxVal
NodeIds    == 1..(2 * MaxSize)   \* addresses operator new can hand out

\* --------------------------------------------------------- program terms
NULL == 0                     \* nullptr
Junk == 0                     \* content of a slot of values[] never assigned

VARIABLES
    nodes,       \* the heap: address -> LNode, defined on the live nodes
    head_,       \* first node or NULL
    tail_,       \* last node or NULL
    size_,       \* number of items
    nodecount_,  \* number of nodes
    asize_,      \* capacity of the array within each node
    err,         \* exception thrown by the last operation, or "none"
    oob,         \* the last operation accessed values[] outside [0, Size)
    op,          \* the last operation and its arguments
    pre,         \* the container as it was when the last operation started
    ret,         \* what the last operation returned (0 for void)
    compacted,   \* compact() was the last member function called
    twice,       \* the last call is a compact() called right after a compact()
    twin,        \* the data members of a second container in the same heap
    pretwin      \* the second container when the last operation started

vars == <<nodes, head_, tail_, size_, nodecount_, asize_, err, oob, op, pre,
          ret, compacted, twice, twin, pretwin>>

\* The second container does not exist. Its phase is "none" while it does not
\* exist, "fresh" when it was just made equal to the first by a copy or an
\* assignment, "changed" once a member of either was called since, and
\* "failed" after a copy constructor that threw.
NoTwin ==
    [phase |-> "none", head_ |-> NULL, tail_ |-> NULL, size_ |-> 0,
     nodecount_ |-> 0]

\* The container an operation starts from.
Cur ==
    [nodes |-> nodes, head_ |-> head_, tail_ |-> tail_, size_ |-> size_,
     nodecount_ |-> nodecount_, asize_ |-> asize_, err |-> "none", oob |-> FALSE,
     twin |-> twin]

Snapshot ==
    [nodes |-> nodes, head_ |-> head_, tail_ |-> tail_, size_ |-> size_,
     nodecount_ |-> nodecount_]

\* struct LNode as `new LNode` leaves it.
LNode(asize) ==
    [next |-> NULL, prev |-> NULL, count |-> 0,
     values |-> [i \in 0..(asize - 1) |-> Junk]]

\* operator new: succeeds unless memory is exhausted (fail) or every address
\* is in use; hands out the lowest free address.
CanAlloc(L, fail) == ~fail /\ (NodeIds \ DOMAIN L.nodes) # {}

NewAddr(L) ==
    CHOOSE a \in NodeIds \ DOMAIN L.nodes :
        \A b \in NodeIds \ DOMAIN L.nodes : a <= b

\* operator delete.
Delete(heap, node) == [n \in DOMAIN heap \ {node} |-> heap[n]]

\* values[i] read as an rvalue; g is what the build yields for a slot that is
\* outside the array or was never assigned.
ReadSlot(L, node, i, g) ==
    IF i < 0 \/ i >= L.asize_ THEN g
    ELSE IF L.nodes[node].values[i] = Junk THEN g
    ELSE L.nodes[node].values[i]

\* ------------------------------------------------------------- shiftUp
RECURSIVE ShiftUpLoop(_, _, _, _)
ShiftUpLoop(values, localIndex, i, count) ==
    IF i < count
    THEN LET temp == values[localIndex]
             v1 == [values EXCEPT ![localIndex] = values[i]]
             v2 == [v1 EXCEPT ![i] = temp]
         IN ShiftUpLoop(v2, localIndex, i + 1, count)
    ELSE values

\* Mutant of shiftUp: the loop starts one element late.
shiftUpLate(L, node, localIndex) ==
    [L EXCEPT !.nodes[node].values =
        ShiftUpLoop(@, localIndex, localIndex + 2, L.nodes[node].count)]

shiftUp(L, node, localIndex) ==
    [L EXCEPT !.nodes[node].values =
        ShiftUpLoop(@, localIndex, localIndex + 1, L.nodes[node].count)]

\* ----------------------------------------------------------- shiftDown
\* values[i] = values[i + 1] for i in [localIndex, count): the last round
\* reads values[count].
RECURSIVE ShiftDownLoop(_, _, _, _)
ShiftDownLoop(L, node, i, g) ==
    IF i < L.nodes[node].count
    THEN LET L1 == [L EXCEPT !.nodes[node].values[i] = ReadSlot(L, node, i + 1, g),
                             !.oob = @ \/ (i + 1 >= L.asize_)]
         IN ShiftDownLoop(L1, node, i + 1, g)
    ELSE L

\* Mutant of shiftDown: the loop starts one element late.
shiftDownLate(L, node, localIndex, g) == ShiftDownLoop(L, node, localIndex + 1, g)

shiftDown(L, node, localIndex, g) == ShiftDownLoop(L, node, localIndex, g)

\* --------------------------------------------------------- find_element
RECURSIVE FindWalk(_, _, _, _)
FindWalk(L, walker, indexSum, index) ==
    IF indexSum + L.nodes[walker].count <= index
    THEN FindWalk(L, L.nodes[walker].next, indexSum + L.nodes[walker].count, index)
    ELSE [node |-> walker, localIndex |-> index - indexSum]

find_element(L, index) == FindWalk(L, L.head_, 0, index)

\* ----------------------------------------------------------- deleteNode
\* Mutant of deleteNode: the node count is not decremented.
deleteNodeUncounted(L, node) ==
    IF node = L.head_
    THEN IF L.head_ = NULL
         THEN L
         ELSE IF L.nodes[L.head_].next = NULL
              THEN [L EXCEPT !.nodes = Delete(@, L.head_),
                             !.head_ = NULL,
                             !.tail_ = NULL]
              ELSE LET temp == L.nodes[L.head_].next
                   IN [L EXCEPT !.nodes = Delete(@, L.head_),
                                !.head_ = temp]
    ELSE IF node = L.tail_
         THEN LET temp == L.nodes[L.tail_].prev
              IN [L EXCEPT !.nodes = Delete([@ EXCEPT ![temp].next = NULL], L.tail_),
                           !.tail_ = temp]
         ELSE LET p == L.nodes[node].prev
                  n == L.nodes[node].next
              IN [L EXCEPT !.nodes =
                               Delete([@ EXCEPT ![p].next = n, ![n].prev = p], node)]

deleteNode(L, node) ==
    IF node = L.head_
    THEN IF L.head_ = NULL
         THEN L
         ELSE IF L.nodes[L.head_].next = NULL
              THEN [L EXCEPT !.nodes = Delete(@, L.head_),
                             !.head_ = NULL,
                             !.tail_ = NULL,
                             !.nodecount_ = @ - 1]
              ELSE LET temp == L.nodes[L.head_].next
                   IN [L EXCEPT !.nodes = Delete(@, L.head_),
                                !.head_ = temp,
                                !.nodecount_ = @ - 1]
    ELSE IF node = L.tail_
         THEN LET temp == L.nodes[L.tail_].prev
              IN [L EXCEPT !.nodes = Delete([@ EXCEPT ![temp].next = NULL], L.tail_),
                           !.tail_ = temp,
                           !.nodecount_ = @ - 1]
         ELSE LET p == L.nodes[node].prev
                  n == L.nodes[node].next
              IN [L EXCEPT !.nodes =
                               Delete([@ EXCEPT ![p].next = n, ![n].prev = p], node),
                           !.nodecount_ = @ - 1]

\* ---------------------------------------------------------------- split
\* The number of elements split() moves to the new node.
\* Mutant of NumSplit: the half is rounded up instead of biased down.
NumSplitUp(count) == (count \div 2) + 1

\* Mutant of NumSplit: no element moves.
NumSplitNone(count) == 0

\* Mutant of NumSplit: half the elements move whatever the parity.
NumSplitHalf(count) == count \div 2

NumSplit(count) ==
    IF count % 2 = 0 THEN (count \div 2) - 1 ELSE count \div 2

\* Returns the container and the address of the node created.
split(L, node, fail) ==
    LET isTail   == node = L.tail_
        count    == L.nodes[node].count
        numSplit == NumSplit(count)
    IN IF ~CanAlloc(L, fail)
       THEN [st |-> [L EXCEPT !.err = "E_NO_MEMORY"], splitNode |-> NULL]
       ELSE LET splitNode == NewAddr(L)
                moved == [j \in 0..(L.asize_ - 1) |->
                             IF j < numSplit
                             THEN L.nodes[node].values[count - numSplit + j]
                             ELSE Junk]
                oldNext == L.nodes[node].next
                rec == [next |-> oldNext, prev |-> node,
                        count |-> numSplit, values |-> moved]
                h1 == [n \in DOMAIN L.nodes \cup {splitNode} |->
                          IF n = splitNode THEN rec ELSE L.nodes[n]]
                h2 == [h1 EXCEPT ![node].count = @ - numSplit,
                                 ![node].next = splitNode]
                h3 == IF oldNext # NULL
                      THEN [h2 EXCEPT ![oldNext].prev = splitNode]
                      ELSE h2
            IN [st |-> [L EXCEPT !.nodes = h3,
                                 !.nodecount_ = @ + 1,
                                 !.tail_ = IF isTail THEN splitNode ELSE @],
                splitNode |-> splitNode]

\* ----------------------------------------------------- push_first_value
\* Mutant of push_first_value: tail_ is not set.
push_first_valueNoTail(L, value, fail) ==
    IF ~CanAlloc(L, fail)
    THEN [L EXCEPT !.err = "E_NO_MEMORY"]
    ELSE LET newNode == NewAddr(L)
             rec == [LNode(L.asize_) EXCEPT !.values[0] = value, !.count = 1]
         IN [L EXCEPT !.nodes = [n \in DOMAIN L.nodes \cup {newNode} |->
                                    IF n = newNode THEN rec ELSE L.nodes[n]],
                      !.head_ = newNode,
                      !.size_ = @ + 1,
                      !.nodecount_ = @ + 1]

push_first_value(L, value, fail) ==
    IF ~CanAlloc(L, fail)
    THEN [L EXCEPT !.err = "E_NO_MEMORY"]
    ELSE LET newNode == NewAddr(L)
             rec == [LNode(L.asize_) EXCEPT !.values[0] = value, !.count = 1]
         IN [L EXCEPT !.nodes = [n \in DOMAIN L.nodes \cup {newNode} |->
                                    IF n = newNode THEN rec ELSE L.nodes[n]],
                      !.head_ = newNode,
                      !.tail_ = newNode,
                      !.size_ = @ + 1,
                      !.nodecount_ = @ + 1]

\* ---------------------------------------------------- push_back_in_node
\* Mutant of push_back_in_node: size_ is not incremented.
push_back_in_nodeNoSize(L, node, value, fail) ==
    LET s == IF L.nodes[node].count >= L.asize_
             THEN split(L, node, fail)
             ELSE [st |-> L, splitNode |-> node]
        M == s.st
        n == s.splitNode
    IN IF M.err # "none"
       THEN M
       ELSE [M EXCEPT !.nodes[n].values[M.nodes[n].count] = value,
                      !.nodes[n].count = @ + 1]

push_back_in_node(L, node, value, fail) ==
    LET s == IF L.nodes[node].count >= L.asize_
             THEN split(L, node, fail)
             ELSE [st |-> L, splitNode |-> node]
        M == s.st
        n == s.splitNode
    IN IF M.err # "none"
       THEN M
       ELSE [M EXCEPT !.nodes[n].values[M.nodes[n].count] = value,
                      !.nodes[n].count = @ + 1,
                      !.size_ = @ + 1]

\* -------------------------------------------------- insert_in_full_node
\* Mutant of insert_in_full_node: the node is split as it is and the value is
\* put at the end of the new node.
insert_in_full_nodeAtEnd(L, node, localIndex, value, fail) ==
    LET s == split(L, node, fail)
    IN IF s.st.err # "none"
       THEN s.st
       ELSE push_back_in_node(s.st, s.splitNode, value, fail)

insert_in_full_node(L, node, localIndex, value, fail) ==
    LET L1 == shiftUp(L, node, localIndex)
        overflow == L1.nodes[node].values[localIndex]
        L2 == [L1 EXCEPT !.nodes[node].values[localIndex] = value]
        s  == split(L2, node, fail)
    IN IF s.st.err # "none"
       THEN s.st
       ELSE push_back_in_node(s.st, s.splitNode, overflow, fail)

\* ------------------------------------------------------------ push_back
push_back(L, value, fail) ==
    IF L.head_ = NULL /\ L.tail_ = NULL
    THEN push_first_value(L, value, fail)
    ELSE LET s == IF L.nodes[L.tail_].count = L.asize_
                  THEN split(L, L.tail_, fail)
                  ELSE [st |-> L, splitNode |-> NULL]
         IN IF s.st.err # "none"
            THEN s.st
            ELSE push_back_in_node(s.st, s.st.tail_, value, fail)

\* ----------------------------------------------------------- push_front
push_front(L, value, fail) ==
    IF L.head_ = NULL
    THEN push_first_value(L, value, fail)
    ELSE IF L.nodes[L.head_].count = L.asize_
    THEN LET L1 == shiftUp(L, L.head_, 0)
             overflow == L1.nodes[L1.head_].values[0]
             L2 == [L1 EXCEPT !.nodes[L1.head_].values[0] = value]
             s  == split(L2, L2.head_, fail)
         IN IF s.st.err # "none"
            THEN s.st
            ELSE push_back_in_node(s.st, s.splitNode, overflow, fail)
    ELSE LET h  == L.head_
             L1 == [L EXCEPT !.nodes[h].values[L.nodes[h].count] = value,
                             !.nodes[h].count = @ + 1,
                             !.size_ = @ + 1]
         IN shiftUp(L1, h, 0)

\* --------------------------------------------------------------- insert
\* Mutant of insert: the upper bound is not checked and every index from
\* size_ on is taken for an append.
insertNoUpperCheck(L, index, value, fail) ==
    IF index < 0
    THEN [L EXCEPT !.err = "E_BAD_INDEX"]
    ELSE IF index >= L.size_
    THEN push_back(L, value, fail)
    ELSE IF index = 0
    THEN push_front(L, value, fail)
    ELSE LET insertInfo == find_element(L, index)
             n == insertInfo.node
         IN IF L.nodes[n].count < L.asize_
            THEN LET L1 == [L EXCEPT !.nodes[n].values[L.nodes[n].count] = value,
                                     !.nodes[n].count = @ + 1,
                                     !.size_ = @ + 1]
                 IN shiftUp(L1, n, insertInfo.localIndex)
            ELSE insert_in_full_node(L, n, insertInfo.localIndex, value, fail)

\* Mutant of insert: an insertion at index size_ is taken for a prepend.
insertAppendAsPrepend(L, index, value, fail) ==
    IF index < 0 \/ index > L.size_
    THEN [L EXCEPT !.err = "E_BAD_INDEX"]
    ELSE IF index = L.size_ \/ index = 0
    THEN push_front(L, value, fail)
    ELSE LET insertInfo == find_element(L, index)
             n == insertInfo.node
         IN IF L.nodes[n].count < L.asize_
            THEN LET L1 == [L EXCEPT !.nodes[n].values[L.nodes[n].count] = value,
                                     !.nodes[n].count = @ + 1,
                                     !.size_ = @ + 1]
                 IN shiftUp(L1, n, insertInfo.localIndex)
            ELSE insert_in_full_node(L, n, insertInfo.localIndex, value, fail)

insert(L, index, value, fail) ==
    IF index < 0 \/ index > L.size_
    THEN [L EXCEPT !.err = "E_BAD_INDEX"]
    ELSE IF index = L.size_
    THEN push_back(L, value, fail)
    ELSE IF index = 0
    THEN push_front(L, value, fail)
    ELSE LET insertInfo == find_element(L, index)
             n == insertInfo.node
         IN IF L.nodes[n].count < L.asize_
            THEN LET L1 == [L EXCEPT !.nodes[n].values[L.nodes[n].count] = value,
                                     !.nodes[n].count = @ + 1,
                                     !.size_ = @ + 1]
                 IN shiftUp(L1, n, insertInfo.localIndex)
            ELSE insert_in_full_node(L, n, insertInfo.localIndex, value, fail)

\* ------------------------------------------------------------- pop_back
\* Mutant of pop_back: an emptied tail node stays in the list.
pop_backNoDelete(L) ==
    [L EXCEPT !.nodes[L.tail_].count = @ - 1, !.size_ = @ - 1]

pop_back(L) ==
    LET L1 == [L EXCEPT !.nodes[L.tail_].count = @ - 1, !.size_ = @ - 1]
    IN IF L1.nodes[L1.tail_].count = 0
       THEN deleteNode(L1, L1.tail_)
       ELSE L1

\* ------------------------------------------------------------ pop_front
\* Mutant of pop_front: an emptied head node stays in the list.
pop_frontNoDelete(L, g) ==
    IF L.head_ = NULL
    THEN L
    ELSE LET L1 == shiftDown(L, L.head_, 0, g)
         IN [L1 EXCEPT !.nodes[L1.head_].count = @ - 1, !.size_ = @ - 1]

pop_front(L, g) ==
    IF L.head_ = NULL
    THEN L
    ELSE LET L1 == shiftDown(L, L.head_, 0, g)
             L2 == [L1 EXCEPT !.nodes[L1.head_].count = @ - 1, !.size_ = @ - 1]
         IN IF L2.nodes[L2.head_].count = 0
            THEN deleteNode(L2, L2.head_)
            ELSE L2

\* ---------------------------------------------------------------- erase
erase(L, index, g) ==
    IF index = 0
    THEN pop_front(L, g)
    ELSE IF index = L.size_
    THEN pop_back(L)
    ELSE LET elementInfo == find_element(L, index)
             n  == elementInfo.node
             L1 == shiftDown(L, n, elementInfo.localIndex, g)
             L2 == [L1 EXCEPT !.nodes[n].count = @ - 1, !.size_ = @ - 1]
         IN IF L2.nodes[n].count = 0
            THEN deleteNode(L2, n)
            ELSE L2

\* ---------------------------------------------------------------- clear
\* Mutant of ClearWalk: only the head node is deleted.
ClearWalkHeadOnly(heap, walker) ==
    IF walker # NULL
    THEN Delete(heap, walker)
    ELSE heap

RECURSIVE ClearWalk(_, _)
ClearWalk(heap, walker) ==
    IF walker # NULL
    THEN LET next == heap[walker].next
         IN ClearWalk(Delete(heap, walker), next)
    ELSE heap

clear(L) ==
    [L EXCEPT !.nodes = ClearWalk(L.nodes, L.head_),
              !.size_ = 0,
              !.nodecount_ = 0,
              !.head_ = NULL,
              !.tail_ = NULL]

\* -------------------------------------------------------------- compact
\* First loop: both feet walk while the left node is full.
RECURSIVE CompactSkip(_, _, _)
CompactSkip(L, leftFoot, rightFoot) ==
    IF L.nodes[leftFoot].count = L.asize_ /\ rightFoot # NULL
    THEN CompactSkip(L, L.nodes[leftFoot].next, L.nodes[rightFoot].next)
    ELSE [leftFoot |-> leftFoot, rightFoot |-> rightFoot]

\* The for loop moving the right node's values into the left node.
RECURSIVE CompactMove(_, _, _, _, _)
CompactMove(L, leftFoot, rightFoot, i, rightFootCount) ==
    IF i < rightFootCount
    THEN LET L1 == [L EXCEPT
                       !.nodes[leftFoot].values[L.nodes[leftFoot].count] =
                           L.nodes[rightFoot].values[i]]
             L2 == [L1 EXCEPT !.nodes[leftFoot].count = @ + 1]
             lf == IF L2.nodes[leftFoot].count = L2.asize_
                   THEN L2.nodes[leftFoot].next
                   ELSE leftFoot
         IN CompactMove(L2, lf, rightFoot, i + 1, rightFootCount)
    ELSE [st |-> L, leftFoot |-> leftFoot]

\* Second loop: one round per right node.
RECURSIVE CompactWalk(_, _, _)
CompactWalk(L, leftFoot, rightFoot) ==
    IF rightFoot # NULL
    THEN LET rightFootCount == L.nodes[rightFoot].count
             L1 == [L EXCEPT !.nodes[rightFoot].count = 0]
             lf == IF L1.nodes[leftFoot].count = L1.asize_
                   THEN L1.nodes[leftFoot].next
                   ELSE leftFoot
             m  == CompactMove(L1, lf, rightFoot, 0, rightFootCount)
         IN CompactWalk(m.st, m.leftFoot, m.st.nodes[rightFoot].next)
    ELSE L

\* Third loop: empty nodes are removed from the end of the list.
\* Mutant of CompactTrim: the emptied nodes are left at the end of the list.
CompactTrimNone(L) == L

RECURSIVE CompactTrim(_)
CompactTrim(L) ==
    IF L.nodes[L.tail_].count = 0
    THEN CompactTrim(deleteNode(L, L.tail_))
    ELSE L

\* Mutant of compact: the emptied nodes are removed before the walk, so the
\* nodes a call empties stay in the list until the next call.
compactTrimFirst(L) ==
    IF L.head_ = NULL
    THEN L
    ELSE LET T    == CompactTrim(L)
             feet == CompactSkip(T, T.head_, T.nodes[T.head_].next)
         IN CompactWalk(T, feet.leftFoot, feet.rightFoot)

compact(L) ==
    IF L.head_ = NULL
    THEN L
    ELSE LET feet == CompactSkip(L, L.head_, L.nodes[L.head_].next)
         IN CompactTrim(CompactWalk(L, feet.leftFoot, feet.rightFoot))

\* ----------------------------------------------------------- operator[]
\* Mutant of operatorIndex: the local index is dropped and the node's first
\* slot is read.
operatorIndexFirstSlot(L, index) ==
    LET elementInfo == find_element(L, index)
    IN L.nodes[elementInfo.node].values[0]

operatorIndex(L, index) ==
    LET elementInfo == find_element(L, index)
    IN L.nodes[elementInfo.node].values[elementInfo.localIndex]

first(L) == L.nodes[L.head_].values[0]

last(L) == L.nodes[L.tail_].values[L.nodes[L.tail_].count - 1]

\* ------------------------------------------------------------------ find
\* Mutant of FindScan: the index restarts at 0 in every node.
RECURSIVE FindScanLocal(_, _, _, _, _)
FindScanLocal(L, walker, i, index, value) ==
    IF walker = NULL
    THEN L.size_
    ELSE IF i < L.nodes[walker].count
         THEN IF L.nodes[walker].values[i] = value
              THEN index
              ELSE FindScanLocal(L, walker, i + 1, index + 1, value)
         ELSE FindScanLocal(L, L.nodes[walker].next, 0, 0, value)

\* The while loop over the nodes with its for loop over a node's values.
RECURSIVE FindScan(_, _, _, _, _)
FindScan(L, walker, i, index, value) ==
    IF walker = NULL
    THEN L.size_
    ELSE IF i < L.nodes[walker].count
         THEN IF L.nodes[walker].values[i] = value
              THEN index
              ELSE FindScan(L, walker, i + 1, index + 1, value)
         ELSE FindScan(L, L.nodes[walker].next, 0, index, value)

find(L, value) == FindScan(L, L.head_, 0, 0, value)

\* ------------------------------------------------ copy and assignment
\* The two containers of the state trade places: the member functions act on
\* the data members head_, tail_, size_ and nodecount_ of the record.
Swap(L) ==
    [L EXCEPT !.head_ = L.twin.head_,
              !.tail_ = L.twin.tail_,
              !.size_ = L.twin.size_,
              !.nodecount_ = L.twin.nodecount_,
              !.twin.head_ = L.head_,
              !.twin.tail_ = L.tail_,
              !.twin.size_ = L.size_,
              !.twin.nodecount_ = L.nodecount_]

\* The traversal of the source shared by the copy constructor and operator=:
\* every live value of every node from walker on is pushed to the back of
\* the container D. The first budget allocations succeed, the next one
\* throws, and the exception leaves the traversal.
RECURSIVE CopyWalk(_, _, _, _)
CopyWalk(D, walker, i, budget) ==
    IF D.err # "none" \/ walker = NULL
    THEN D
    ELSE IF i < D.nodes[walker].count
         THEN LET r == push_back(D, D.nodes[walker].values[i], budget <= 0)
              IN CopyWalk(r, walker, i + 1, budget - (r.nodecount_ - D.nodecount_))
         ELSE CopyWalk(D, D.nodes[walker].next, 0, budget)

\* Mutant of LariatCopy: the data members of rhs are copied, not its nodes.
LariatCopyShallow(L, budget) ==
    [L EXCEPT !.twin = [phase |-> "fresh", head_ |-> L.head_, tail_ |-> L.tail_,
                        size_ |-> L.size_, nodecount_ |-> L.nodecount_]]

\* Lariat(const Lariat& rhs) with rhs the container of L: the container
\* constructed is the twin of the result. When the constructor throws no
\* object exists and no destructor runs: the nodes it allocated stay
\* allocated.
LariatCopy(L, budget) ==
    LET empty == [L EXCEPT !.twin = [NoTwin EXCEPT !.phase = "fresh"]]
        built == CopyWalk(Swap(empty), L.head_, 0, budget)
    IN IF built.err = "none"
       THEN Swap(built)
       ELSE [Swap(built) EXCEPT !.twin = [NoTwin EXCEPT !.phase = "failed"]]

\* Mutant of operatorAssign: the destination is not cleared first.
operatorAssignNoClear(L, budget) == CopyWalk(L, L.twin.head_, 0, budget)

\* operator=(other) on the container of L with other its twin.
operatorAssign(L, budget) == CopyWalk(clear(L), L.twin.head_, 0, budget)

\* The member function named by a call, with every allocation succeeding.
Member(L, call, g) ==
    CASE call.name = "push_back"  -> push_back(L, call.value, FALSE)
      [] call.name = "push_front" -> push_front(L, call.value, FALSE)
      [] call.name = "insert"     -> insert(L, call.index, call.value, FALSE)
      [] call.name = "erase"      -> erase(L, call.index, g)
      [] call.name = "pop_back"   -> pop_back(L)
      [] call.name = "pop_front"  -> pop_front(L, g)
      [] call.name = "compact"    -> compact(L)
      [] call.name = "clear"      -> clear(L)

\* ============================================================ the machine
\* The nodes met following next from node n, in order, each once.
RECURSIVE Chain(_, _, _)
Chain(heap, n, seen) ==
    IF n \notin DOMAIN heap \/ n \in seen
    THEN << >>
    ELSE <<n>> \o Chain(heap, heap[n].next, seen \cup {n})

Range(s) == {s[k] : k \in DOMAIN s}

RECURSIVE Ascending(_)
Ascending(S) ==
    IF S = {}
    THEN << >>
    ELSE LET m == CHOOSE a \in S : \A b \in S : a <= b
         IN <<m>> \o Ascending(S \ {m})

\* Addresses mean nothing but identity, and a slot at or beyond count is
\* read by nobody before it is written or handed to ReadSlot. Between calls
\* the heap is kept up to renaming of addresses: the nodes of the chain are
\* numbered 1, 2, ... from head_, nodes outside the chain follow, a pointer
\* to a deleted node becomes Dangling, and the slots at or beyond count are
\* forgotten. Pointer fields are renamed, never recomputed.
Dangling == NULL - 1

Canonical(L) ==
    LET chain == Chain(L.nodes, L.head_, {})
        other == SelectSeq(Chain(L.nodes, L.twin.head_, {}),
                           LAMBDA a : a \notin Range(chain))
        order == chain \o other
                 \o Ascending(DOMAIN L.nodes \ (Range(chain) \cup Range(other)))
        R(a) == IF a = NULL THEN NULL
                ELSE IF a \in DOMAIN L.nodes
                     THEN CHOOSE k \in DOMAIN order : order[k] = a
                     ELSE Dangling
        rec(a) == [next   |-> R(L.nodes[a].next),
                   prev   |-> R(L.nodes[a].prev),
                   count  |-> L.nodes[a].count,
                   values |-> [i \in DOMAIN L.nodes[a].values |->
                                  IF i < L.nodes[a].count
                                  THEN L.nodes[a].values[i]
                                  ELSE Junk]]
    IN [L EXCEPT !.nodes = [k \in DOMAIN order |-> rec(order[k])],
                 !.head_ = R(L.head_),
                 !.tail_ = R(L.tail_),
                 !.twin.head_ = R(L.twin.head_),
                 !.twin.tail_ = R(L.twin.tail_)]

Call(name, index, value) == [name |-> name, index |-> index, value |-> value]

\* No call is recorded: the caller has looked at the last result.
Idle == Call("idle", 0, 0)

\* A member function is called when no call is recorded, and returns (or
\* throws) leaving the container r; the call and the container it started
\* from stay recorded until the caller moves on.
ReturnValue(r, call, value) ==
    /\ op = Idle
    /\ \E c \in {Canonical(r)} :
          /\ nodes' = c.nodes
          /\ head_' = c.head_
          /\ tail_' = c.tail_
          /\ size_' = c.size_
          /\ nodecount_' = c.nodecount_
          /\ asize_' = c.asize_
          /\ err' = c.err
          /\ oob' = c.oob
          /\ op' = call
          /\ pre' = Snapshot
          /\ ret' = value
          /\ compacted' = (call.name = "compact")
          /\ twice' = (call.name = "compact" /\ compacted)
          /\ twin' = IF twin.phase = "fresh"
                     THEN [c.twin EXCEPT !.phase = "changed"]
                     ELSE c.twin
          /\ pretwin' = twin

\* A member function returning void.
Return(r, call) == ReturnValue(r, call, 0)

\* Lariat(): the default constructor, for each template parameter Size.
Init ==
    /\ asize_ \in Capacities
    /\ nodes = [n \in {} |-> LNode(asize_)]
    /\ head_ = NULL
    /\ tail_ = NULL
    /\ size_ = 0
    /\ nodecount_ = 0
    /\ err = "none"
    /\ oob = FALSE
    /\ op = Idle
    /\ pre = Snapshot
    /\ ret = 0
    /\ compacted = FALSE
    /\ twice = FALSE
    /\ twin = NoTwin
    /\ pretwin = NoTwin

Insert(index, value, fail) ==
    /\ size_ < MaxSize \/ index < 0 \/ index > size_
    /\ Return(insert(Cur, index, value, fail), Call("insert", index, value))

PushBack(value, fail) ==
    /\ size_ < MaxSize
    /\ Return(push_back(Cur, value, fail), Call("push_back", 0, value))

PushFront(value, fail) ==
    /\ size_ < MaxSize
    /\ Return(push_front(Cur, value, fail), Call("push_front", 0, value))

\* erase(index) for the indices the code handles without walking off the
\* list: 0 <= index <= size_.
Erase(index, g) ==
    /\ Return(erase(Cur, index, g), Call("erase", index, 0))

\* pop_back() dereferences tail_: called on a non-empty container only.
PopBack ==
    /\ tail_ # NULL
    /\ Return(pop_back(Cur), Call("pop_back", 0, 0))

PopFront(g) ==
    /\ Return(pop_front(Cur, g), Call("pop_front", 0, 0))

Compact ==
    /\ Return(compact(Cur), Call("compact", 0, 0))

Clear ==
    /\ Return(clear(Cur), Call("clear", 0, 0))

\* The queries leave the container as it is and return a value.
Find(value) ==
    /\ ReturnValue(Cur, Call("find", 0, value), find(Cur, value))

At(index) ==
    /\ ReturnValue(Cur, Call("operator[]", index, 0), operatorIndex(Cur, index))

First ==
    /\ head_ # NULL
    /\ ReturnValue(Cur, Call("first", 0, 0), first(Cur))

Last ==
    /\ tail_ # NULL
    /\ ReturnValue(Cur, Call("last", 0, 0), last(Cur))

\* The caller moves on: the record of the last call is dropped.
MoveOn ==
    /\ op # Idle
    /\ op' = Idle
    /\ pre' = Snapshot
    /\ err' = "none"
    /\ oob' = FALSE
    /\ ret' = 0
    /\ twice' = FALSE
    /\ pretwin' = twin
    /\ UNCHANGED <<nodes, head_, tail_, size_, nodecount_, asize_, compacted,
                   twin>>

Next ==
    \/ \E index \in (-1)..(size_ + 1), value \in Values, fail \in BOOLEAN :
           Insert(index, value, fail)
    \/ \E value \in Values, fail \in BOOLEAN : PushBack(value, fail)
    \/ \E value \in Values, fail \in BOOLEAN : PushFront(value, fail)
    \/ \E index \in 0..size_, g \in Values : Erase(index, g)
    \/ PopBack
    \/ \E g \in Values : PopFront(g)
    \/ Compact
    \/ Clear
    \/ \E value \in Values : Find(value)
    \/ \E index \in 0..(size_ - 1) : At(index)
    \/ First
    \/ Last
    \/ MoveOn

Spec == Init /\ [][Next]_vars

\* ------------------------------------------- two containers, one heap
\* A container is built, copy constructed into a second one, then a member
\* of either is called, then either is assigned to the other, and so on.
\* The calls a copy or an assignment is followed by, on a container of n items.
Calls(n) ==
    {[name |-> "push_back", index |-> 0, value |-> v] : v \in Values}
    \cup {[name |-> "push_front", index |-> 0, value |-> v] : v \in Values}
    \cup {[name |-> "insert", index |-> i, value |-> v] : i \in 0..n, v \in Values}
    \cup {[name |-> "erase", index |-> i, value |-> 0] : i \in 0..n}
    \cup {[name |-> nm, index |-> 0, value |-> 0] :
             nm \in {"pop_back", "pop_front", "compact", "clear"}}

Grows(call) == call.name \in {"push_back", "push_front", "insert"}

\* A member of the first container is called; the second, if there is one,
\* has just been made equal to it.
ThisCall(call, g) ==
    /\ twin.phase \in {"none", "fresh"}
    /\ Grows(call) => size_ < MaxCopySize
    /\ call.name = "pop_back" => tail_ # NULL
    /\ Return(Member(Cur, call, g), call)

\* A member of the second container is called.
TwinCall(call, g) ==
    /\ twin.phase = "fresh"
    /\ Grows(call) => twin.size_ < MaxCopySize
    /\ call.name = "pop_back" => twin.tail_ # NULL
    /\ Return(Swap(Member(Swap(Cur), call, g)),
              [call EXCEPT !.name = "twin." \o call.name])

\* Lariat twin(this) when budget allocations succeed.
CopyConstruct(budget) ==
    /\ twin.phase = "none"
    /\ Return(LariatCopy(Cur, budget), Call("copy", budget, 0))

\* this = twin, every allocation succeeding.
AssignThis ==
    /\ twin.phase = "changed"
    /\ \E r \in {operatorAssign(Cur, MaxCopySize)} :
          Return([r EXCEPT !.twin.phase = "fresh"], Call("assign", 0, 0))

\* twin = this, every allocation succeeding.
AssignTwin ==
    /\ twin.phase = "changed"
    /\ \E r \in {Swap(operatorAssign(Swap(Cur), MaxCopySize))} :
          Return([r EXCEPT !.twin.phase = "fresh"], Call("twin.assign", 0, 0))

NextCopy ==
    \/ \E call \in Calls(size_), g \in Values : ThisCall(call, g)
    \/ \E call \in Calls(twin.size_), g \in Values : TwinCall(call, g)
    \/ \E budget \in 0..MaxCopySize : CopyConstruct(budget)
    \/ AssignThis
    \/ AssignTwin
    \/ MoveOn

SpecCopy == Init /\ [][NextCopy]_vars

\* ---------------------------------------- appending in two ways
\* Two containers start empty; each value is inserted into the first at
\* index size() and pushed to the back of the second.
InitAppend ==
    /\ asize_ \in Capacities
    /\ nodes = [n \in {} |-> LNode(asize_)]
    /\ head_ = NULL
    /\ tail_ = NULL
    /\ size_ = 0
    /\ nodecount_ = 0
    /\ err = "none"
    /\ oob = FALSE
    /\ op = Idle
    /\ pre = Snapshot
    /\ ret = 0
    /\ compacted = FALSE
    /\ twice = FALSE
    /\ twin = [NoTwin EXCEPT !.phase = "changed"]
    /\ pretwin = twin

AppendBoth(value) ==
    /\ size_ < MaxSize
    /\ \E a \in {insert(Cur, size_, value, FALSE)} :
          Return(Swap(push_back(Swap(a), value, FALSE)),
                 Call("insert", size_, value))

NextAppend ==
    \/ \E value \in Values : AppendBoth(value)
    \/ MoveOn

SpecAppend == InitAppend /\ [][NextAppend]_vars

\* ------------------------------------------------- split on its own
\* split() is private: it is applied here to a full node of a list in which
\* that node is the only node, the head, the tail or a middle node.
SplitCaps == 1..MaxSplitCap

InitSplit ==
    /\ asize_ \in SplitCaps
    /\ \E hasPrev \in BOOLEAN, hasNext \in BOOLEAN,
          content \in [0..(asize_ - 1) -> Values] :
          LET full  == IF hasPrev THEN 2 ELSE 1
              count == IF hasNext THEN full + 1 ELSE full
              other == [i \in 0..(asize_ - 1) |->
                           IF i = 0 THEN content[0] ELSE Junk]
          IN /\ nodes = [n \in 1..count |->
                            [next   |-> IF n = count THEN NULL ELSE n + 1,
                             prev   |-> IF n = 1 THEN NULL ELSE n - 1,
                             count  |-> IF n = full THEN asize_ ELSE 1,
                             values |-> IF n = full THEN content ELSE other]]
             /\ head_ = 1
             /\ tail_ = count
             /\ size_ = asize_ + (count - 1)
             /\ nodecount_ = count
    /\ err = "none"
    /\ oob = FALSE
    /\ op = Idle
    /\ pre = Snapshot
    /\ ret = 0
    /\ compacted = FALSE
    /\ twice = FALSE
    /\ twin = NoTwin
    /\ pretwin = NoTwin

\* split(node) on a full node; the node created is returned.
Split(node, fail) ==
    /\ op = Idle
    /\ node \in DOMAIN nodes
    /\ nodes[node].count = asize_
    /\ \E r \in {split(Cur, node, fail)} :
          /\ nodes' = r.st.nodes
          /\ head_' = r.st.head_
          /\ tail_' = r.st.tail_
          /\ size_' = r.st.size_
          /\ nodecount_' = r.st.nodecount_
          /\ asize_' = r.st.asize_
          /\ err' = r.st.err
          /\ oob' = r.st.oob
          /\ ret' = r.splitNode
    /\ op' = Call("split", node, 0)
    /\ pre' = Snapshot
    /\ compacted' = FALSE
    /\ twice' = FALSE
    /\ UNCHANGED <<twin, pretwin>>

\* insert(index, value) at an index inside the list that falls into the full
\* node, every allocation succeeding: the call reaches insert_in_full_node.
SplitInsert(index, value) ==
    /\ 0 < index
    /\ index < size_
    /\ nodes[find_element(Cur, index).node].count = asize_
    /\ Return(insert(Cur, index, value, FALSE), Call("insert", index, value))

NextSplit ==
    \/ \E node \in NodeIds, fail \in BOOLEAN : Split(node, fail)
    \/ \E index \in 1..(MaxSplitCap + 1), value \in Values :
           SplitInsert(index, value)

SpecSplit == InitSplit /\ [][NextSplit]_vars

\* ======================================================= observations
\* The live elements of node n: values[0 .. count).
Live(heap, n) == [k \in 1..heap[n].count |-> heap[n].values[k - 1]]

RECURSIVE Flatten(_, _)
Flatten(heap, chain) ==
    IF chain = << >>
    THEN << >>
    ELSE Live(heap, Head(chain)) \o Flatten(heap, Tail(chain))

\* The sequence a container holds, read head to tail.
Elements(heap, head) == Flatten(heap, Chain(heap, head, {}))

Now == Elements(nodes, head_)
Before == Elements(pre.nodes, pre.head_)

TypeOK ==
    /\ asize_ \in Capacities
    /\ DOMAIN nodes \subseteq NodeIds
    /\ head_ \in DOMAIN nodes \cup {NULL}
    /\ tail_ \in DOMAIN nodes \cup {NULL}
    /\ size_ \in 0..MaxSize
    /\ err \in {"none", "E_NO_MEMORY", "E_BAD_INDEX"}
    /\ oob \in BOOLEAN

\* The nodes of the chain from head, and their live elements node by node.
NodesNow == Chain(nodes, head_, {})
Segments(heap, head) ==
    LET chain == Chain(heap, head, {})
    IN [k \in DOMAIN chain |-> Live(heap, chain[k])]

\* s with v put in front of position i (positions from 0).
InsertAt(s, i, v) == SubSeq(s, 1, i) \o <<v>> \o SubSeq(s, i + 1, Len(s))

\* s without position i (positions from 0).
RemoveAt(s, i) == SubSeq(s, 1, i) \o SubSeq(s, i + 2, Len(s))

\* The segments segs after position i of their concatenation is removed and
\* a segment left empty is dropped.
RECURSIVE RemoveInSegments(_, _)
RemoveInSegments(segs, i) ==
    IF segs = << >> THEN << >>
    ELSE IF i < Len(Head(segs))
         THEN (IF Len(Head(segs)) = 1 THEN << >> ELSE <<RemoveAt(Head(segs), i)>>)
              \o Tail(segs)
         ELSE <<Head(segs)>> \o RemoveInSegments(Tail(segs), i - Len(Head(segs)))

\* Each node of the chain and its successor point at each other, the chain
\* runs from head_ to tail_ and ends there.
NeighboursLinked ==
    /\ \A k \in 1..(Len(NodesNow) - 1) :
           /\ nodes[NodesNow[k]].next = NodesNow[k + 1]
           /\ nodes[NodesNow[k + 1]].prev = NodesNow[k]
    /\ NodesNow # << >> =>
           /\ head_ = NodesNow[1]
           /\ tail_ = NodesNow[Len(NodesNow)]
           /\ nodes[tail_].next = NULL

Unmodified == Snapshot = pre

\* ================================================================ claims

\* C1: insert(i, v) with 0 <= i <= size, when no allocation fails, returns
\* normally and leaves s[0..i), v, s[i..size) with size one larger, on every
\* path (prepend, append, room in the segment, full segment split).
C1_InsertPlacesValue ==
    (op.name = "insert" /\ 0 <= op.index /\ op.index <= pre.size_
        /\ err # "E_NO_MEMORY")
    => /\ err = "none"
       /\ Now = InsertAt(Before, op.index, op.value)
       /\ size_ = pre.size_ + 1

\* An insert strictly inside the sequence split a full segment holding
\* different values.
C1_Witness ==
    /\ op.name = "insert" /\ err = "none"
    /\ 0 < op.index /\ op.index < pre.size_
    /\ nodecount_ = pre.nodecount_ + 1
    /\ \E j, k \in DOMAIN Before : Before[j] # Before[k]
    /\ Now = InsertAt(Before, op.index, op.value)

RECURSIVE SumCounts(_, _)
SumCounts(heap, chain) ==
    IF chain = << >> THEN 0
    ELSE heap[Head(chain)].count + SumCounts(heap, Tail(chain))

\* C3: after any sequence of operations size() equals the sum of the live
\* counts of the segments reachable from head.
C3_SizeIsSumOfCounts == size_ = SumCounts(nodes, NodesNow)

\* compact() moved elements between segments and removed a segment.
C3_Witness ==
    /\ op.name = "compact"
    /\ nodecount_ < pre.nodecount_
    /\ size_ >= 3
    /\ size_ = SumCounts(nodes, NodesNow)

\* C4: no segment's count exceeds the capacity, and every segment but the
\* last holds at least one element, whatever the capacity.
C4_CountsWithinCapacity ==
    \A k \in DOMAIN NodesNow :
        /\ nodes[NodesNow[k]].count >= 0
        /\ nodes[NodesNow[k]].count <= asize_
        /\ k < Len(NodesNow) => nodes[NodesNow[k]].count >= 1

\* With capacity 2 a full tail was split, moving no element, by push_back.
C4_Witness ==
    /\ asize_ = 2
    /\ op.name = "push_back" /\ err = "none"
    /\ pre.nodecount_ >= 1
    /\ nodecount_ = pre.nodecount_ + 1
    /\ nodes[tail_].count = 1

\* C5: head is null iff tail is null iff size is 0.
C5_EmptyIffNull ==
    /\ (head_ = NULL) <=> (tail_ = NULL)
    /\ (head_ = NULL) <=> (size_ = 0)

\* The last remaining element was removed by erase, pop_back or pop_front.
C5_Witness ==
    /\ op.name \in {"erase", "pop_back", "pop_front"}
    /\ pre.size_ = 1
    /\ size_ = 0 /\ head_ = NULL /\ tail_ = NULL

\* C6: following next from head visits exactly nodecount_ segments, the last
\* of which is tail, whose next is null.
C6_NodeCountIsChainLength ==
    /\ Len(NodesNow) = nodecount_
    /\ head_ = NULL => tail_ = NULL
    /\ head_ # NULL =>
           /\ NodesNow[Len(NodesNow)] = tail_
           /\ nodes[tail_].next = NULL

\* erase emptied a segment standing between two others, and deleteNode
\* unlinked it and counted it off.
C6_Witness ==
    /\ op.name = "erase"
    /\ nodecount_ = pre.nodecount_ - 1
    /\ nodecount_ >= 2
    /\ 0 < op.index /\ op.index < pre.size_ - 1
    /\ Len(NodesNow) = nodecount_

\* The nodes met following prev from node n, in order, each once.
RECURSIVE ChainBack(_, _, _)
ChainBack(heap, n, seen) ==
    IF n \notin DOMAIN heap \/ n \in seen
    THEN << >>
    ELSE <<n>> \o ChainBack(heap, heap[n].prev, seen \cup {n})

\* C7: the chain is well formed backward: head.prev is null, n.next.prev = n
\* for every segment with a successor, and following prev from tail reaches
\* head in the segment count of steps.
C7_BackwardLinks ==
    head_ # NULL =>
        /\ nodes[head_].prev = NULL
        /\ \A k \in 1..(Len(NodesNow) - 1) :
               nodes[nodes[NodesNow[k]].next].prev = NodesNow[k]
        /\ LET back == ChainBack(nodes, tail_, {})
           IN /\ Len(back) = nodecount_
              /\ back[Len(back)] = head_

\* C8: insert with index < 0 or index > size throws E_BAD_INDEX and leaves
\* segments, counts, elements, size and segment count as they were.
C8_InsertBadIndex ==
    (op.name = "insert" /\ (op.index < 0 \/ op.index > pre.size_))
    => /\ err = "E_BAD_INDEX"
       /\ Unmodified

\* insert was called on a non-empty container with an index beyond size.
C8_Witness ==
    /\ op.name = "insert"
    /\ op.index > pre.size_
    /\ pre.size_ >= 2
    /\ err = "E_BAD_INDEX"
    /\ Unmodified

\* C9: erase with index < 0 or index >= size throws the out-of-range failure
\* and leaves the container unmodified.
C9_EraseBadIndex ==
    (op.name = "erase" /\ (op.index < 0 \/ op.index >= pre.size_))
    => /\ err = "E_BAD_INDEX"
       /\ Unmodified

\* C10: when creating a segment fails the operation throws E_NO_MEMORY and
\* the container is exactly as it was before the operation.
C10_AllocFailureLeavesUnmodified ==
    err = "E_NO_MEMORY" => Unmodified

\* The container the last call started from, as an argument of the member
\* functions.
PreL ==
    [nodes |-> pre.nodes, head_ |-> pre.head_, tail_ |-> pre.tail_,
     size_ |-> pre.size_, nodecount_ |-> pre.nodecount_, asize_ |-> asize_,
     err |-> "none", oob |-> FALSE, twin |-> pretwin]

\* The least number of segments of capacity c that hold n elements.
CeilDiv(n, c) == (n + c - 1) \div c

\* C11: compact() keeps size and the head-to-tail order; afterwards every
\* segment but the last is full and there are ceil(size / C) segments; on an
\* empty container it changes nothing.
C11_CompactPacks ==
    op.name = "compact"
    => /\ err = "none"
       /\ size_ = pre.size_
       /\ Now = Before
       /\ \A k \in 1..(Len(NodesNow) - 1) : nodes[NodesNow[k]].count = asize_
       /\ nodecount_ = CeilDiv(size_, asize_)
       /\ Len(NodesNow) = nodecount_
       /\ pre.size_ = 0 => Unmodified

\* compact() ran on segments none of which was full, moved elements of
\* different values forward and removed a segment.
C11_Witness ==
    /\ op.name = "compact"
    /\ asize_ >= 2
    /\ \A k \in DOMAIN pre.nodes : pre.nodes[k].count < asize_
    /\ nodecount_ < pre.nodecount_
    /\ \E j, k \in DOMAIN Now : Now[j] # Now[k]
    /\ Now = Before

\* C12: a compact() called right after a compact() leaves the element order
\* and the size unchanged and the segment count the same or smaller: it
\* changes nothing that can be observed.
C12_CompactTwice ==
    twice
    => /\ Now = Before
       /\ size_ = pre.size_
       /\ nodecount_ <= pre.nodecount_
       /\ Segments(nodes, head_) = Segments(pre.nodes, pre.head_)

\* compact() ran a second time on a container of several segments holding
\* different values.
C12_Witness ==
    /\ twice
    /\ op.name = "compact"
    /\ pre.nodecount_ >= 2
    /\ asize_ >= 2
    /\ \E j, k \in DOMAIN Now : Now[j] # Now[k]
    /\ Now = Before

\* C13: find(v) returns the smallest index holding v, or size() when no
\* element equals v, and leaves the container as it was.
C13_FindFirstMatch ==
    op.name = "find"
    => /\ err = "none"
       /\ Unmodified
       /\ Now = Before
       /\ IF \E i \in DOMAIN Before : Before[i] = op.value
          THEN /\ ret \in 0..(pre.size_ - 1)
               /\ Before[ret + 1] = op.value
               /\ \A i \in 1..ret : Before[i] # op.value
          ELSE ret = pre.size_

\* find() returned an index past the first node, after skipping other values.
C13_Witness ==
    /\ op.name = "find"
    /\ pre.nodecount_ >= 2
    /\ ret < pre.size_
    /\ ret >= pre.nodes[pre.head_].count
    /\ Before[ret + 1] = op.value

\* find() looked for a value the non-empty container does not hold.
C13_WitnessAbsent ==
    /\ op.name = "find"
    /\ pre.size_ >= 2
    /\ ret = pre.size_

\* C14: for every i in [0, size) find_element(i) lands in a node of the list
\* with a local index inside [0, count) and operator[](i) returns the i-th
\* element in list order (for every container a caller holds between calls
\* and for every call made); on a non-empty container first() returns
\* element 0 and last() returns element size - 1.
C14_IndexReadsElement ==
    /\ op = Idle
       => \E elems \in {Now}, chain \in {Range(NodesNow)} :
             \A i \in 0..(size_ - 1) :
                 \E info \in {find_element(Cur, i)} :
                    /\ info.node \in chain
                    /\ 0 <= info.localIndex
                    /\ info.localIndex < nodes[info.node].count
                    /\ operatorIndex(Cur, i) = elems[i + 1]
    /\ op.name = "operator[]" => ret = Before[op.index + 1] /\ Unmodified
    /\ op.name = "first" => ret = Before[1] /\ Unmodified
    /\ op.name = "last" => ret = Before[pre.size_] /\ Unmodified

\* operator[] read an element that is neither first in the list nor first in
\* its node and differs from its node's first value.
C14_Witness ==
    /\ op.name = "operator[]"
    /\ pre.nodecount_ >= 2
    /\ find_element(Cur, op.index).node # head_
    /\ find_element(Cur, op.index).localIndex > 0
    /\ ret = Before[op.index + 1]
    /\ ret # nodes[find_element(Cur, op.index).node].values[0]

\* The container r as a caller finds it after the call.
SnapOf(r) ==
    LET c == Canonical(r)
    IN [nodes |-> c.nodes, head_ |-> c.head_, tail_ |-> c.tail_,
        size_ |-> c.size_, nodecount_ |-> c.nodecount_]

\* C17: on a non-empty container pop_back() removes the last element and
\* pop_front() the first, size drops by one and the tail/head node is
\* deleted when it empties; erase(0) does exactly what pop_front() does and
\* erase(size) exactly what pop_back() does.
C17_PopsAndEraseEnds ==
    /\ (op.name = "pop_back" /\ pre.size_ > 0)
       => /\ err = "none"
          /\ Now = SubSeq(Before, 1, Len(Before) - 1)
          /\ size_ = pre.size_ - 1
          /\ Segments(nodes, head_) =
                RemoveInSegments(Segments(pre.nodes, pre.head_), pre.size_ - 1)
          /\ nodecount_ = pre.nodecount_
                          - (IF pre.nodes[pre.tail_].count = 1 THEN 1 ELSE 0)
          /\ DOMAIN nodes = Range(NodesNow)
          /\ size_ = 0 => head_ = NULL /\ tail_ = NULL
    /\ (op.name = "pop_front" /\ pre.size_ > 0)
       => /\ err = "none"
          /\ Now = Tail(Before)
          /\ size_ = pre.size_ - 1
          /\ Segments(nodes, head_) =
                RemoveInSegments(Segments(pre.nodes, pre.head_), 0)
          /\ nodecount_ = pre.nodecount_
                          - (IF pre.nodes[pre.head_].count = 1 THEN 1 ELSE 0)
          /\ DOMAIN nodes = Range(NodesNow)
          /\ size_ = 0 => head_ = NULL /\ tail_ = NULL
    /\ (op.name = "erase" /\ op.index = 0)
       => \E g \in Values : Snapshot = SnapOf(pop_front(PreL, g))
    /\ (op.name = "erase" /\ op.index = pre.size_ /\ pre.size_ > 0)
       => Snapshot = SnapOf(pop_back(PreL))

\* pop_back() emptied the tail node of a list of several nodes, which was
\* deleted.
C17_Witness ==
    /\ op.name = "pop_back"
    /\ pre.nodecount_ >= 2
    /\ pre.nodes[pre.tail_].count = 1
    /\ nodecount_ = pre.nodecount_ - 1
    /\ Now = SubSeq(Before, 1, Len(Before) - 1)

\* erase(size) was called on a list of several nodes.
C17_WitnessEraseSize ==
    /\ op.name = "erase"
    /\ op.index = pre.size_
    /\ pre.nodecount_ >= 2
    /\ size_ = pre.size_ - 1

\* C18: in every state the allocated nodes are exactly the nodes reached from
\* head_ via next, each once, and no link of the list leads to a released
\* node; clear() releases every node and leaves head_ and tail_ null, size 0
\* and node count 0, and changes nothing on an empty container.
C18_AllocatedIsReachable ==
    /\ DOMAIN nodes = Range(NodesNow)
    /\ Len(NodesNow) = Cardinality(DOMAIN nodes)
    /\ head_ \in DOMAIN nodes \cup {NULL}
    /\ tail_ \in DOMAIN nodes \cup {NULL}
    /\ \A n \in DOMAIN nodes : nodes[n].next \in (DOMAIN nodes \cup {NULL}) \ {n}
    /\ NodesNow # << >> => nodes[NodesNow[Len(NodesNow)]].next = NULL
    /\ op.name = "clear"
       => /\ err = "none"
          /\ DOMAIN nodes = {}
          /\ head_ = NULL
          /\ tail_ = NULL
          /\ size_ = 0
          /\ nodecount_ = 0
          /\ pre.size_ = 0 => Unmodified

\* clear() released a list of several nodes.
C18_Witness ==
    /\ op.name = "clear"
    /\ pre.nodecount_ >= 2
    /\ Cardinality(DOMAIN pre.nodes) >= 2
    /\ DOMAIN nodes = {}
    /\ head_ = NULL

\* C19: split of a full node moves count \div 2 elements to the new node when
\* count is odd and (count \div 2) - 1 when count is even; they are the last
\* elements of the node in their order, the two counts add up to the
\* original count, the new node is linked between the node and its former
\* successor, and it is the tail exactly when the node was the tail.
C19_SplitMovesLastElements ==
    (op.name = "split" /\ err = "none")
    => LET node    == op.index
           new     == ret
           count   == pre.nodes[node].count
           moved   == nodes[new].count
           oldNext == pre.nodes[node].next
       IN /\ count = asize_
          /\ new \notin DOMAIN pre.nodes
          /\ moved = IF count % 2 = 1 THEN count \div 2 ELSE (count \div 2) - 1
          /\ \A j \in 0..(moved - 1) :
                nodes[new].values[j] = pre.nodes[node].values[count - moved + j]
          /\ nodes[node].count + moved = count
          /\ \A j \in 0..(nodes[node].count - 1) :
                nodes[node].values[j] = pre.nodes[node].values[j]
          /\ nodes[node].next = new
          /\ nodes[new].prev = node
          /\ nodes[new].next = oldNext
          /\ oldNext # NULL => nodes[oldNext].prev = new
          /\ (tail_ = new) <=> (pre.tail_ = node)
          /\ pre.tail_ # node => tail_ = pre.tail_
          /\ head_ = pre.head_
          /\ nodecount_ = pre.nodecount_ + 1
          /\ Now = Before

\* A middle node of even capacity was split and at least two elements, not
\* all alike, moved.
C19_Witness ==
    /\ op.name = "split"
    /\ err = "none"
    /\ asize_ % 2 = 0
    /\ nodes[ret].count >= 2
    /\ nodes[ret].values[0] # nodes[ret].values[1]
    /\ pre.nodes[op.index].prev # NULL
    /\ pre.nodes[op.index].next # NULL
    /\ nodes[nodes[ret].next].prev = ret

\* The recorded call split a full node and appended one element to the new
\* node: it added a node to a non-empty list.
SplitCall ==
    /\ op.name \in {"push_back", "push_front", "insert"}
    /\ err = "none"
    /\ pre.nodecount_ >= 1
    /\ nodecount_ = pre.nodecount_ + 1

\* The node that call split: the tail for an append, the head for a prepend,
\* the node holding the index otherwise. Nodes are numbered along the list.
SplitPos ==
    IF op.name = "push_back" \/ (op.name = "insert" /\ op.index = pre.size_)
    THEN pre.tail_
    ELSE IF op.name = "push_front" \/ op.index = 0
         THEN pre.head_
         ELSE find_element(PreL, op.index).node

\* C20 as stated: after the split and the append the two nodes hold equally
\* many elements, for every capacity.
C20_HalvesEqual ==
    SplitCall
    => nodes[SplitPos].count = nodes[nodes[SplitPos].next].count

\* C20: after a full node is split and one element is appended to the new
\* node, the two nodes hold equally many elements when the capacity is odd,
\* and the first holds exactly one more than the second when it is even.
C20_HalvesByParity ==
    SplitCall
    => LET firstCount  == nodes[SplitPos].count
           secondCount == nodes[nodes[SplitPos].next].count
       IN /\ pre.nodes[SplitPos].count = asize_
          /\ firstCount + secondCount = asize_ + 1
          /\ IF asize_ % 2 = 1
             THEN firstCount = secondCount
             ELSE firstCount = secondCount + 1

\* insert() inside the list split a full node of even capacity.
C20_Witness ==
    /\ SplitCall
    /\ op.name = "insert"
    /\ 0 < op.index
    /\ op.index < pre.size_
    /\ asize_ % 2 = 0
    /\ nodes[SplitPos].count = nodes[nodes[SplitPos].next].count + 1

\* push_back() split a full tail of odd capacity above 1.
C20_WitnessOdd ==
    /\ SplitCall
    /\ op.name = "push_back"
    /\ asize_ % 2 = 1
    /\ asize_ > 1
    /\ nodes[SplitPos].count = nodes[nodes[SplitPos].next].count

\* The second container exists.
Alive(t) == t.phase \in {"fresh", "changed"}

TwinNodesNow == Chain(nodes, twin.head_, {})
TwinNow == Elements(nodes, twin.head_)
TwinBefore == Elements(pre.nodes, pretwin.head_)

\* The last call left the elements, size and segments of the first container,
\* respectively of the second, as they were.
ThisUnchanged ==
    /\ Now = Before
    /\ size_ = pre.size_
    /\ nodecount_ = pre.nodecount_
    /\ Segments(nodes, head_) = Segments(pre.nodes, pre.head_)

TwinUnchanged ==
    /\ TwinNow = TwinBefore
    /\ twin.size_ = pretwin.size_
    /\ twin.nodecount_ = pretwin.nodecount_
    /\ Segments(nodes, twin.head_) = Segments(pre.nodes, pretwin.head_)

ThisNames ==
    {"push_back", "push_front", "insert", "erase", "pop_back", "pop_front",
     "compact", "clear"}

TwinNames == {"twin." \o nm : nm \in ThisNames}

\* C16: a copy constructed container and the destination of an assignment
\* between distinct containers hold the elements of the source in its order
\* and have its size, the source is unchanged, the two share no node, and a
\* member called afterwards on one of the two leaves the elements, size and
\* segments of the other unchanged.
C16_CopyIsIndependent ==
    /\ Alive(twin) => Range(NodesNow) \cap Range(TwinNodesNow) = {}
    /\ (op.name = "copy" /\ err = "none")
       => /\ twin.phase = "fresh"
          /\ TwinNow = Before
          /\ twin.size_ = pre.size_
          /\ ThisUnchanged
    /\ op.name = "twin.assign"
       => /\ err = "none"
          /\ TwinNow = Before
          /\ twin.size_ = pre.size_
          /\ ThisUnchanged
    /\ op.name = "assign"
       => /\ err = "none"
          /\ Now = TwinBefore
          /\ size_ = pretwin.size_
          /\ TwinUnchanged
    /\ (op.name \in ThisNames /\ Alive(pretwin)) => TwinUnchanged
    /\ op.name \in TwinNames => ThisUnchanged

\* A container of several nodes was assigned to a container that held other
\* elements in several nodes.
C16_Witness ==
    /\ op.name = "assign"
    /\ pre.nodecount_ >= 2
    /\ pretwin.nodecount_ >= 2
    /\ Before # TwinBefore
    /\ Now = TwinBefore
    /\ TwinNow = TwinBefore
    /\ Range(NodesNow) \cap Range(TwinNodesNow) = {}

\* A call on the copy split one of its nodes and left the source alone.
C16_WitnessLater ==
    /\ op.name = "twin.push_front"
    /\ twin.nodecount_ > pretwin.nodecount_
    /\ pretwin.nodecount_ >= 1
    /\ size_ >= 2
    /\ TwinNow # Now
    /\ ThisUnchanged

\* A call on the source after a copy left the copy alone.
C16_WitnessSource ==
    /\ op.name = "erase"
    /\ Alive(pretwin)
    /\ pre.size_ >= 2
    /\ size_ < pre.size_
    /\ TwinNow = Before

\* C18 with every operation of the class, the copy constructor included: the
\* allocated nodes are exactly the nodes reached from the head of a container
\* that exists.
C18_NothingLeaks ==
    DOMAIN nodes = Range(NodesNow) \cup Range(TwinNodesNow)

\* C15: from an empty container, insert(k, ek) for k = 0, 1, ..., n - 1
\* leaves the element order and the size that push_back(e0), ...,
\* push_back(e(n-1)) leave.
C15_InsertAtEndIsPushBack ==
    /\ Now = TwinNow
    /\ size_ = twin.size_
    /\ nodecount_ = twin.nodecount_
    /\ Segments(nodes, head_) = Segments(nodes, twin.head_)

\* Values not all alike were appended both ways until nodes had to split.
C15_Witness ==
    /\ op.name = "insert"
    /\ op.index = pre.size_
    /\ size_ = MaxSize
    /\ nodecount_ >= 2
    /\ twin.nodecount_ >= 2
    /\ \E j, k \in DOMAIN Now : Now[j] # Now[k]
    /\ Now = TwinNow
    /\ Now = Before \o <<op.value>>

\* The recorded call is an insert inside the list made through
\* insert_in_full_node: it split the node holding the index.
SplitInsertCall ==
    /\ op.name = "insert"
    /\ err = "none"
    /\ 0 < op.index
    /\ op.index < pre.size_
    /\ nodecount_ = pre.nodecount_ + 1

\* C21 as stated: after a split-insert both nodes are within capacity, the
\* first holds the elements that were before localIndex and the second the
\* inserted value followed by the elements that were at and after localIndex.
C21_InsertedLeadsSecond ==
    SplitInsertCall
    => LET info   == find_element(PreL, op.index)
           old    == Live(pre.nodes, info.node)
           firstSeg  == Live(nodes, info.node)
           secondSeg == Live(nodes, nodes[info.node].next)
       IN /\ Len(firstSeg) <= asize_
          /\ Len(secondSeg) <= asize_
          /\ firstSeg = SubSeq(old, 1, info.localIndex)
          /\ secondSeg = <<op.value>> \o SubSeq(old, info.localIndex + 1, Len(old))

\* C21: after a split-insert at localIndex of a full node both nodes are
\* within capacity and read together they are the old elements with the value
\* put in at localIndex; the first node keeps the first C - m of these C + 1
\* elements, m being the number split() moves (C \div 2 for odd C,
\* (C \div 2) - 1 for even C), so that the value lies in the second node
\* exactly when localIndex >= C - m and in the first node otherwise.
C21_SplitInsertPlacement ==
    SplitInsertCall
    => LET info   == find_element(PreL, op.index)
           li     == info.localIndex
           old    == Live(pre.nodes, info.node)
           firstSeg  == Live(nodes, info.node)
           secondSeg == Live(nodes, nodes[info.node].next)
           m      == IF asize_ % 2 = 1 THEN asize_ \div 2 ELSE (asize_ \div 2) - 1
           keep   == asize_ - m
       IN /\ Len(old) = asize_
          /\ Len(firstSeg) <= asize_
          /\ Len(secondSeg) <= asize_
          /\ firstSeg \o secondSeg = InsertAt(old, li, op.value)
          /\ Len(firstSeg) = keep
          /\ Len(secondSeg) = m + 1
          /\ li < keep => firstSeg[li + 1] = op.value
          /\ li >= keep => secondSeg[li - keep + 1] = op.value
          /\ Now = InsertAt(Before, op.index, op.value)

\* An insert at a local index above 0 of a full middle node left the value
\* in the first of the two nodes, followed there by an older element.
C21_Witness ==
    /\ SplitInsertCall
    /\ asize_ >= 4
    /\ find_element(PreL, op.index).node # pre.head_
    /\ find_element(PreL, op.index).node # pre.tail_
    /\ find_element(PreL, op.index).localIndex > 0
    /\ find_element(PreL, op.index).localIndex + 1
          < nodes[find_element(PreL, op.index).node].count
    /\ nodes[find_element(PreL, op.index).node].values[
          find_element(PreL, op.index).localIndex] = op.value
    /\ Now = InsertAt(Before, op.index, op.value)

\* An insert into a full node put the value in the second of the two nodes.
C21_WitnessSecond ==
    /\ SplitInsertCall
    /\ asize_ >= 3
    /\ find_element(PreL, op.index).localIndex
          >= nodes[find_element(PreL, op.index).node].count
    /\ Now = InsertAt(Before, op.index, op.value)

\* C22 as stated: the number of nodes is at most size / (C / 2), the nodes
\* being at least half full on average (written without the division).
C22_HalfFullOnAverage ==
    nodecount_ * asize_ <= 2 * size_

\* C22: the number of nodes is at most size, every node of the list holding
\* at least one element, and at least the number of nodes size elements need.
C22_NodesBetweenBounds ==
    /\ nodecount_ <= size_
    /\ CeilDiv(size_, asize_) <= nodecount_
    /\ Len(NodesNow) = nodecount_
    /\ \A n \in Range(NodesNow) : nodes[n].count >= 1

\* Erasing left a list of capacity above 2 with a single element in each of
\* its nodes.
C22_Witness ==
    /\ op.name = "erase"
    /\ err = "none"
    /\ asize_ >= 3
    /\ nodecount_ >= 2
    /\ nodecount_ = size_
    /\ size_ < pre.size_
    /\ \A n \in Range(NodesNow) : nodes[n].count = 1

\* C23: the shift made by erase and pop_front never accesses a slot outside
\* the array of the node, values[0 .. Size), also when the node is full.
C23_ShiftStaysInArray ==
    op.name \in {"erase", "pop_front"} => ~oob

====
